---- MODULE Spec2Model ----
(* Model of vit_pytorch/utils.py: load_pretrained_weights and               *)
(* resize_positional_embedding_.                                            *)
(*                                                                          *)
(* A tensor of shape (1, N, D) is a sequence of N tokens, each a sequence   *)
(* of D integers.  A ParameterSet (torch state dict) is a function from a   *)
(* set of parameter names to tensors.  The module namespace of utils.py is  *)
(* part of the state, because resize_positional_embedding_ reads the free   *)
(* names model, np and logger from it.                                      *)
EXTENDS Integers, Sequences, FiniteSets, TLC

VARIABLES
    params,            \* the model's parameters (model.state_dict())
    pre,               \* the model's parameters when the call started
    loaded,            \* the ParameterSet as read from the file / URL (line 34/36)
    state_dict,        \* the local state_dict of load_pretrained_weights
    load_first_conv,   \* argument
    load_fc,           \* argument
    resize_positional_embedding,  \* argument
    expected_missing_keys,        \* local, the keys still to pop (lines 40-46)
    ret,               \* result of the latest model.load_state_dict
    applied,           \* the ParameterSets handed to model.load_state_dict, in order
    pc,                \* position in load_pretrained_weights
    err,               \* the exception that ended the call, if any
    g_model,           \* module global "model": "unbound", "token" or "gap"
    g_np,              \* module global "np" is bound
    g_logger,          \* module global "logger" is bound
    scipy,             \* scipy.ndimage can be imported
    last,              \* latest direct call of resize_positional_embedding_
    prev               \* the direct call before it

vars == <<params, pre, loaded, state_dict, load_first_conv, load_fc,
          resize_positional_embedding, expected_missing_keys, ret, applied,
          pc, err, g_model, g_np, g_logger, scipy, last, prev>>

loadVars == <<params, pre, loaded, state_dict, load_first_conv, load_fc,
              resize_positional_embedding, expected_missing_keys, ret, applied,
              pc, err>>

envVars == <<g_model, g_np, g_logger, scipy>>

----------------------------------------------------------------------------
(* Bounds *)

\* tensor entries of a loaded ParameterSet range over 1..MaxVal
MaxVal == 1
\* embedding dimension D of the tensors given to the resize ranges over 1..MaxD
MaxD == 1
\* tensor entries of the embeddings given to the resize depend on a seed 0..MaxSeed
MaxSeed == 1

----------------------------------------------------------------------------
(* Names and tensors *)

PE_W == "patch_embedding.weight"
PE_B == "patch_embedding.bias"
FC_W == "fc.weight"
FC_B == "fc.bias"
POS  == "positional_embedding.pos_embedding"
NORM == "norm.weight"

\* the parameter names of the modelled checkpoints and models: the five the
\* code names, and one it does not
Names == {PE_W, PE_B, FC_W, FC_B, POS, NORM}

\* a tensor of n tokens and d channels, all entries v
Fill(n, d, v) == [i \in 1..n |-> [c \in 1..d |-> v]]

\* a tensor of n tokens and d channels with entries that differ per token
Ramp(n, d, s) == [i \in 1..n |-> [c \in 1..d |-> (s + i + c) % 3]]

\* token count of each parameter in the load scenarios: the positional
\* embedding is a class token plus a 1x1 grid, the others one token
Tokens(name) == IF name = POS THEN 2 ELSE 1

\* the freshly constructed model: every parameter it has is zero
FreshModel(names) == [k \in names |-> Fill(Tokens(k), 1, 0)]

\* a ParameterSet read from a checkpoint
Checkpoint(names, v) == [k \in names |-> Fill(Tokens(k), 1, v)]

NoErr == [type |-> "none", line |-> 0, keys |-> {}]
Raise(type, line, keys) == [type |-> type, line |-> line, keys |-> keys]

NoRet == [missing_keys |-> {}, unexpected_keys |-> {}]

\* record of a direct call of resize_positional_embedding_: its arguments,
\* the module global model it ran under, and its outcome
NoCall == [called |-> FALSE, posemb |-> <<>>, posemb_new |-> <<>>,
           model |-> "unbound", out |-> NoErr, value |-> <<>>]

\* token counts of the embeddings given to the resize: class token + 2x2,
\* class token + 4x4 (or a 4x4 grid + 1) and class token + 8x8
OldTokens == {5, 17}
NewTokens == {17, 65}

----------------------------------------------------------------------------
(* resize_positional_embedding_ *)

\* int(np.sqrt(n)) for n >= 0
RECURSIVE ISqrtFrom(_, _)
ISqrtFrom(n, r) == IF (r + 1) * (r + 1) > n THEN r ELSE ISqrtFrom(n, r + 1)

ISqrt(n) == ISqrtFrom(n, 0)

\* number of channels of a tensor
Dim(t) == IF Len(t) = 0 THEN 0 ELSE Len(t[1])

\* The outcome of resize_positional_embedding_(posemb, posemb_new) in a
\* module namespace (gm, np, lg) with scipy importable or not: a record
\* [out, value], out the exception raised (NoErr on return).
\* Line 81 binds the local zoom to scipy's function, line 98 rebinds the same
\* local to a tuple, so the call at line 99 calls a tuple: lines 100-104 are
\* never executed and no outcome has out = NoErr.
ResizeOutcome(posemb, posemb_new, gm, np, lg, sp) ==
    IF ~sp THEN [out |-> Raise("ImportError", 81, {}), value |-> <<>>]
    ELSE IF gm = "unbound" THEN [out |-> Raise("NameError", 85, {"model"}), value |-> <<>>]
    ELSE
      LET has_tok     == gm = "token"
          ntok_new    == Len(posemb_new) - (IF has_tok THEN 1 ELSE 0)
          posemb_grid == IF has_tok THEN SubSeq(posemb, 2, Len(posemb)) ELSE posemb
      IN  IF ~np THEN [out |-> Raise("NameError", 92, {"np"}), value |-> <<>>]
          ELSE IF ntok_new < 0 THEN [out |-> Raise("ValueError", 93, {}), value |-> <<>>]
          ELSE
            LET gs_old == ISqrt(Len(posemb_grid))
                gs_new == ISqrt(ntok_new)
            IN  IF ~lg THEN [out |-> Raise("NameError", 94, {"logger"}), value |-> <<>>]
                ELSE IF gs_old = 0 \/ (Len(posemb_grid) * Dim(posemb)) % (gs_old * gs_old) # 0
                     THEN [out |-> Raise("RuntimeError", 95, {}), value |-> <<>>]
                ELSE [out |-> Raise("TypeError", 99, {"zoom"}), value |-> <<>>]

resize_positional_embedding_(posemb, posemb_new, gm, np, lg, sp) ==
    ResizeOutcome(posemb, posemb_new, gm, np, lg, sp)

----------------------------------------------------------------------------
(* model.load_state_dict(state_dict, strict=False) *)

\* non-strict apply: every name both sides have is written, the rest reported
LoadStateDict(p, sd) ==
    [params |-> [k \in DOMAIN p |-> IF k \in DOMAIN sd THEN sd[k] ELSE p[k]],
     missing_keys |-> DOMAIN p \ DOMAIN sd,
     unexpected_keys |-> DOMAIN sd \ DOMAIN p]

\* a variant that validates before it writes: nothing is written when a
\* key is missing or unexpected
load_state_dict_Atomic(p, sd) ==
    IF DOMAIN p = DOMAIN sd
    THEN LoadStateDict(p, sd)
    ELSE [LoadStateDict(p, sd) EXCEPT !.params = p]

\* the call sites at lines 57, 61 and 66: the model is written in place and
\* the report is bound to ret
load_state_dict(p, sd) == LoadStateDict(p, sd)

----------------------------------------------------------------------------
(* load_pretrained_weights *)

\* a variant with the two conditions inverted
ExpectedMissingKeys_Inverted(lfc, lfcl) ==
    (IF lfc THEN <<PE_W, PE_B>> ELSE <<>>) \o (IF lfcl THEN <<FC_W, FC_B>> ELSE <<>>)

\* a variant that forgets the classifier keys
ExpectedMissingKeys_NoFc(lfc, lfcl) ==
    IF ~lfc THEN <<PE_W, PE_B>> ELSE <<>>

\* lines 40-44
ExpectedMissingKeys(lfc, lfcl) ==
    (IF ~lfc THEN <<PE_W, PE_B>> ELSE <<>>) \o (IF ~lfcl THEN <<FC_W, FC_B>> ELSE <<>>)

\* a variant that pops with a default: dict.pop(key, None)
Pop_Lenient(sd, key) ==
    [ok |-> TRUE, dict |-> [k \in DOMAIN sd \ {key} |-> sd[k]]]

\* dict.pop(key) without a default: KeyError when the key is absent
Pop(sd, key) ==
    IF key \in DOMAIN sd
    THEN [ok |-> TRUE,  dict |-> [k \in DOMAIN sd \ {key} |-> sd[k]]]
    ELSE [ok |-> FALSE, dict |-> sd]

\* a variant without the assertion of line 62
AssertNoMissing_Off(r) == TRUE

\* line 62
AssertNoMissing(r) == r.missing_keys = {}

\* line 67
AssertFcMissing(r) == r.missing_keys = {FC_W, FC_B}

\* line 69
AssertNoUnexpected(r) == r.unexpected_keys = {}

Init ==
    /\ \E names \in SUBSET Names : params = FreshModel(names)
    /\ pre = params
    /\ loaded = <<>>
    /\ state_dict = <<>>
    /\ load_first_conv = TRUE
    /\ load_fc = TRUE
    /\ resize_positional_embedding = FALSE
    /\ expected_missing_keys = <<>>
    /\ ret = NoRet
    /\ applied = <<>>
    /\ pc = "idle"
    /\ err = NoErr
    /\ g_model = "unbound"
    /\ g_np = FALSE
    /\ g_logger = FALSE
    /\ scipy \in BOOLEAN
    /\ last = NoCall
    /\ prev = NoCall

\* lines 10-44: the call, the ParameterSet read from the file or URL, and
\* the list of keys to pop
Call ==
    /\ pc = "idle"
    /\ \E names \in SUBSET Names, v \in 1..MaxVal, lfc \in BOOLEAN,
          lfcl \in BOOLEAN, rs \in BOOLEAN :
         /\ loaded' = Checkpoint(names, v)
         /\ state_dict' = Checkpoint(names, v)
         /\ load_first_conv' = lfc
         /\ load_fc' = lfcl
         /\ resize_positional_embedding' = rs
         /\ expected_missing_keys' = ExpectedMissingKeys(lfc, lfcl)
    /\ pre' = params
    /\ pc' = "pop"
    /\ UNCHANGED <<params, ret, applied, err, envVars, last, prev>>

\* lines 45-46: one iteration of the loop
PopKey ==
    /\ pc = "pop"
    /\ expected_missing_keys # <<>>
    /\ LET r == Pop(state_dict, Head(expected_missing_keys))
       IN  IF r.ok
           THEN /\ state_dict' = r.dict
                /\ expected_missing_keys' = Tail(expected_missing_keys)
                /\ UNCHANGED <<pc, err>>
           ELSE /\ pc' = "raised"
                /\ err' = Raise("KeyError", 46, {Head(expected_missing_keys)})
                /\ UNCHANGED <<state_dict, expected_missing_keys>>
    /\ UNCHANGED <<params, pre, loaded, load_first_conv, load_fc,
                   resize_positional_embedding, ret, applied, envVars, last, prev>>

\* lines 49-53, entered when the loop is over
ResizeStep ==
    /\ pc = "pop"
    /\ expected_missing_keys = <<>>
    /\ IF ~resize_positional_embedding
       THEN /\ pc' = "apply"
            /\ UNCHANGED <<state_dict, err>>
       ELSE IF POS \notin DOMAIN state_dict
       THEN /\ pc' = "raised"
            /\ err' = Raise("KeyError", 51, {POS})
            /\ UNCHANGED state_dict
       ELSE IF POS \notin DOMAIN params
       THEN /\ pc' = "raised"
            /\ err' = Raise("KeyError", 52, {POS})
            /\ UNCHANGED state_dict
       ELSE LET r == resize_positional_embedding_(state_dict[POS], params[POS],
                                                  g_model, g_np, g_logger, scipy)
            IN  IF r.out = NoErr
                THEN /\ state_dict' = [state_dict EXCEPT ![POS] = r.value]
                     /\ pc' = "apply"
                     /\ UNCHANGED err
                ELSE /\ pc' = "raised"
                     /\ err' = r.out
                     /\ UNCHANGED state_dict
    /\ UNCHANGED <<params, pre, loaded, load_first_conv, load_fc,
                   resize_positional_embedding, expected_missing_keys, ret,
                   applied, envVars, last, prev>>

\* line 57
Apply57 ==
    /\ pc = "apply"
    /\ LET r == load_state_dict(params, state_dict)
       IN  /\ params' = r.params
           /\ ret' = [missing_keys |-> r.missing_keys,
                      unexpected_keys |-> r.unexpected_keys]
    /\ applied' = Append(applied, state_dict)
    /\ pc' = "branch"
    /\ UNCHANGED <<pre, loaded, state_dict, load_first_conv, load_fc,
                   resize_positional_embedding, expected_missing_keys, err,
                   envVars, last, prev>>

\* lines 60-62: the load_fc branch
BranchLoadFc ==
    /\ pc = "branch"
    /\ load_fc
    /\ LET r == load_state_dict(params, state_dict)
       IN  /\ params' = r.params
           /\ ret' = [missing_keys |-> r.missing_keys,
                      unexpected_keys |-> r.unexpected_keys]
           /\ IF AssertNoMissing(r)
              THEN pc' = "check" /\ UNCHANGED err
              ELSE pc' = "raised" /\ err' = Raise("AssertionError", 62, r.missing_keys)
    /\ applied' = Append(applied, state_dict)
    /\ UNCHANGED <<pre, loaded, state_dict, load_first_conv, load_fc,
                   resize_positional_embedding, expected_missing_keys,
                   envVars, last, prev>>

\* lines 63-68: the branch of load_fc = False
BranchSkipFc ==
    /\ pc = "branch"
    /\ ~load_fc
    /\ LET p1 == Pop(state_dict, FC_W)
           p2 == Pop(p1.dict, FC_B)
           r  == load_state_dict(params, p2.dict)
       IN  IF ~p1.ok
           THEN /\ pc' = "raised"
                /\ err' = Raise("KeyError", 64, {FC_W})
                /\ UNCHANGED <<state_dict, params, ret, applied>>
           ELSE IF ~p2.ok
           THEN /\ pc' = "raised"
                /\ err' = Raise("KeyError", 65, {FC_B})
                /\ state_dict' = p1.dict
                /\ UNCHANGED <<params, ret, applied>>
           ELSE /\ state_dict' = p2.dict
                /\ params' = r.params
                /\ ret' = [missing_keys |-> r.missing_keys,
                           unexpected_keys |-> r.unexpected_keys]
                /\ applied' = Append(applied, p2.dict)
                /\ IF AssertFcMissing(r)
                   THEN pc' = "check" /\ UNCHANGED err
                   ELSE pc' = "raised" /\ err' = Raise("AssertionError", 67, r.missing_keys)
    /\ UNCHANGED <<pre, loaded, load_first_conv, load_fc,
                   resize_positional_embedding, expected_missing_keys,
                   envVars, last, prev>>

\* lines 69-72: the last assertion, then the message and the return
CheckUnexpected ==
    /\ pc = "check"
    /\ IF AssertNoUnexpected(ret)
       THEN pc' = "done" /\ UNCHANGED err
       ELSE pc' = "raised" /\ err' = Raise("AssertionError", 69, ret.unexpected_keys)
    /\ UNCHANGED <<params, pre, loaded, state_dict, load_first_conv, load_fc,
                   resize_positional_embedding, expected_missing_keys, ret,
                   applied, envVars, last, prev>>

Next ==
    \/ Call
    \/ PopKey
    \/ ResizeStep
    \/ Apply57
    \/ BranchLoadFc
    \/ BranchSkipFc
    \/ CheckUnexpected

Spec == Init /\ [][Next]_vars

----------------------------------------------------------------------------
(* Direct calls of resize_positional_embedding_ *)

InitResize ==
    /\ params = FreshModel(Names)
    /\ pre = params
    /\ loaded = <<>>
    /\ state_dict = <<>>
    /\ load_first_conv = TRUE
    /\ load_fc = TRUE
    /\ resize_positional_embedding = FALSE
    /\ expected_missing_keys = <<>>
    /\ ret = NoRet
    /\ applied = <<>>
    /\ pc = "idle"
    /\ err = NoErr
    /\ g_model = "unbound"
    /\ g_np = FALSE
    /\ g_logger = FALSE
    /\ scipy \in BOOLEAN
    /\ last = NoCall
    /\ prev = NoCall

\* The namespace of the module is writable by whoever imports it: the free
\* names model, np and logger that lines 85, 92 and 94 read are unbound after
\* import and hold whatever an importer assigned before the call.
BindGlobals ==
    /\ \E m \in {"unbound", "token", "gap"}, n \in BOOLEAN, l \in BOOLEAN :
         /\ <<m, n, l>> # <<g_model, g_np, g_logger>>
         /\ g_model' = m
         /\ g_np' = n
         /\ g_logger' = l
    /\ UNCHANGED <<loadVars, scipy, last, prev>>

\* lines 79-104, called with two tensors
CallResize ==
    /\ \E n \in OldTokens, nn \in NewTokens, d \in 1..MaxD, s \in 0..MaxSeed :
         LET posemb     == Ramp(n, d, s)
             posemb_new == Fill(nn, d, 0)
             r == resize_positional_embedding_(posemb, posemb_new,
                                               g_model, g_np, g_logger, scipy)
         IN  last' = [called |-> TRUE, posemb |-> posemb, posemb_new |-> posemb_new,
                      model |-> g_model, out |-> r.out, value |-> r.value]
    /\ prev' = last
    /\ UNCHANGED <<loadVars, envVars>>

NextResize ==
    \/ BindGlobals
    \/ CallResize

SpecResize == InitResize /\ [][NextResize]_vars

----------------------------------------------------------------------------
(* Properties of load_pretrained_weights (checked under Spec) *)

Terminal == pc \in {"done", "raised"}

\* the ParameterSet read holds exactly the names the model has
ExactNames == DOMAIN loaded = DOMAIN pre

FcKeys == {FC_W, FC_B}
PeKeys == {PE_W, PE_B}

\* the ParameterSet given to the latest load_state_dict
LastApplied == applied[Len(applied)]

\* C1: with load_first_conv, load_fc, no resize and a ParameterSet of exactly
\* the model's names, the call never raises and on return every parameter of
\* the model equals the value read under its name.
C1_LoadAllExact ==
    (pc # "idle" /\ load_first_conv /\ load_fc /\ ~resize_positional_embedding
       /\ ExactNames)
    => /\ pc # "raised"
       /\ pc = "done" => params = loaded

C1_Witness ==
    /\ pc = "done" /\ load_first_conv /\ load_fc /\ ~resize_positional_embedding
    /\ ExactNames /\ DOMAIN params = Names
    /\ params = loaded /\ params # pre

\* C2: with load_fc = false (the other options at their defaults) and a
\* ParameterSet of exactly the model's names, all of Names here, the call
\* returns and the validated load_state_dict reported
\* missing = {fc.weight, fc.bias} and no unexpected key.
C2_SkipFcReturns ==
    (Terminal /\ ~load_fc /\ load_first_conv /\ ~resize_positional_embedding
       /\ ExactNames /\ DOMAIN loaded = Names)
    => /\ pc = "done"
       /\ ret.missing_keys = FcKeys
       /\ ret.unexpected_keys = {}

\* C3: with load_fc = false, whatever the other options and however the call
\* ends, the model's fc.weight and fc.bias keep their pre-call values, and no
\* ParameterSet given to load_state_dict holds fc.weight or fc.bias.
C3_FcUntouched ==
    (pc # "idle" /\ ~load_fc)
    => /\ \A k \in FcKeys \cap DOMAIN params : params[k] = pre[k]
       /\ \A i \in 1..Len(applied) : FcKeys \cap DOMAIN applied[i] = {}

C3_Witness ==
    /\ Terminal /\ ~load_fc /\ Len(applied) >= 1
    /\ FcKeys \subseteq DOMAIN loaded /\ FcKeys \subseteq DOMAIN params
    /\ loaded[FC_W] # pre[FC_W]
    /\ params[FC_W] = pre[FC_W] /\ params # pre

\* C4: with load_first_conv = false and a ParameterSet without
\* patch_embedding.weight, the call ends with the KeyError of the removal
\* loop (line 46), and load_state_dict has not been called.
C4_PopMissingRaises ==
    (pc # "idle" /\ ~load_first_conv /\ PE_W \notin DOMAIN loaded)
    => /\ applied = <<>>
       /\ params = pre
       /\ pc \in {"pop", "raised"}
       /\ pc = "raised" => err = Raise("KeyError", 46, {PE_W})

C4_Witness ==
    /\ pc = "raised" /\ ~load_first_conv /\ PE_W \notin DOMAIN loaded
    /\ err = Raise("KeyError", 46, {PE_W}) /\ applied = <<>>

\* C5: with load_fc = true the call returns only if load_state_dict reported
\* no missing key, and a call that got as far as load_state_dict with a name
\* of the model absent from the ParameterSet ends with the AssertionError of
\* line 62 carrying exactly those names.
C5_MissingAsserted ==
    /\ (load_fc /\ pc = "done") => ret.missing_keys = {}
    /\ (load_fc /\ Terminal /\ applied # <<>>
          /\ DOMAIN params \ DOMAIN LastApplied # {})
       => /\ pc = "raised"
          /\ ret.missing_keys = DOMAIN params \ DOMAIN LastApplied
          /\ err = Raise("AssertionError", 62, ret.missing_keys)

C5_Witness ==
    /\ load_fc /\ pc = "raised" /\ applied # <<>>
    /\ err.type = "AssertionError" /\ err.line = 62 /\ err.keys # {}

\* the names the options of the call exclude
Excluded ==
    (IF ~load_first_conv THEN PeKeys ELSE {}) \cup (IF ~load_fc THEN FcKeys ELSE {})

\* C6: for every combination of options the call returns only if
\* load_state_dict reported no unexpected key, and a call that gave
\* load_state_dict a name the model lacks ends with an AssertionError
\* carrying the unexpected keys.  Stated for the calls in which the model
\* misses no name but those the options exclude, so that the assertion on
\* the missing keys is not what the ParameterSet itself sets off.
C6_UnexpectedAsserted ==
    /\ pc = "done" => ret.unexpected_keys = {}
    /\ (Terminal /\ applied # <<>> /\ DOMAIN LastApplied \ DOMAIN params # {}
          /\ (DOMAIN params \ DOMAIN loaded) \subseteq Excluded)
       => /\ pc = "raised"
          /\ err.type = "AssertionError"
          /\ err.keys = DOMAIN LastApplied \ DOMAIN params

\* C9: when the call ends with an AssertionError, load_state_dict has run and
\* every parameter of the model whose name was in the ParameterSet given to
\* it holds that ParameterSet's value: nothing is rolled back.
C9_NoRollback ==
    (pc = "raised" /\ err.type = "AssertionError")
    => /\ applied # <<>>
       /\ \A k \in DOMAIN params \cap DOMAIN LastApplied : params[k] = LastApplied[k]

C9_Witness ==
    /\ pc = "raised" /\ err.type = "AssertionError"
    /\ applied # <<>>
    /\ DOMAIN params \cap DOMAIN LastApplied # {}
    /\ params # pre

\* C10: with load_first_conv = false, load_fc = true, no resize and a
\* ParameterSet of exactly the model's names (all of Names here),
\* the call returns, patch_embedding.* keep their pre-call values and every
\* other parameter holds the value read.
C10_SkipFirstConvReturns ==
    (Terminal /\ ~load_first_conv /\ load_fc /\ ~resize_positional_embedding
       /\ ExactNames /\ DOMAIN loaded = Names)
    => /\ pc = "done"
       /\ \A k \in PeKeys : params[k] = pre[k]
       /\ \A k \in DOMAIN params \ PeKeys : params[k] = loaded[k]

----------------------------------------------------------------------------
(* Properties of resize_positional_embedding_ (checked under SpecResize) *)

\* C7: called with an old embedding of 1 + 16 tokens and a reference of
\* 1 + 64 tokens under a model with a class token (scipy, np and logger
\* available), the function returns a tensor of 65 tokens whose first token
\* is the first token of the old embedding.
C7_Resize4To8 ==
    (last.called /\ Len(last.posemb) = 17 /\ Len(last.posemb_new) = 65
       /\ last.model = "token"
       /\ last.out.type \notin {"ImportError", "NameError"})
    => /\ last.out = NoErr
       /\ Len(last.value) = 65
       /\ last.value[1] = last.posemb[1]

\* C8: two calls with the same posemb and posemb_new have the same outcome,
\* whatever model object exists outside the function.
C8_PureOfArguments ==
    (last.called /\ prev.called
       /\ last.posemb = prev.posemb /\ last.posemb_new = prev.posemb_new)
    => /\ last.out = prev.out
       /\ last.value = prev.value

====
